---------------------------- MODULE Spec2Model ----------------------------
(***************************************************************************)
(* Model of source/common/http/path_utility.cc: the single-shot request    *)
(* path operations of PathUtil (canonicalPath, mergeSlashes,               *)
(* removeQueryAndFragment) and the configured PathTransformer pipeline     *)
(* (constructor, mergeSlashes, rfcNormalize, transform).                   *)
(*                                                                         *)
(* A byte string is a sequence of one-character strings; NUL stands for    *)
(* the zero byte.  An absl::string_view is a record [bytes, tail]: bytes   *)
(* are the size() bytes of the view, tail are the bytes that follow the    *)
(* view in memory up to (not including) the next zero byte.  A view made   *)
(* from a std::string has an empty tail.  Positions are 1-based, and 0     *)
(* stands for npos.                                                        *)
(***************************************************************************)
EXTENDS Naturals, Sequences, FiniteSets

\* ------------------------------------------------------------ bounds
\* Longest path-with-query string handed to a static operation.
MaxLen == 3
\* Longest path-with-query string handed to a request of the configured filter.
MaxViewLen == 2
\* Longest operation list of a path_transformation configuration.
MaxOps == 2

\* ------------------------------------------------------------ bytes
NUL == "NUL"
Bytes == {"/", ".", "a", "%", "?", NUL}
HexDigits == {"a"}
\* '#' only matters to removeQueryAndFragment.
FragmentBytes == {"/", "a", "?", "#"}

StringsOver(alphabet, n) == UNION {[1..k -> alphabet] : k \in 0..n}

\* What may follow a view in memory before the next zero byte: nothing (the
\* buffer is terminated right at size()), or more bytes of a larger buffer.
\* Reading past a view that no zero byte follows is undefined; whatever the
\* read then yields is one more such tail.
MemTails == {<<>>, <<"/", "?">>}

Views == {[bytes |-> b, tail |-> t] : b \in StringsOver(Bytes, MaxLen), t \in MemTails}
RequestViews == {[bytes |-> b, tail |-> t] : b \in StringsOver(Bytes, MaxViewLen), t \in MemTails}
FragmentViews == {[bytes |-> b, tail |-> <<>>] : b \in StringsOver(FragmentBytes, MaxLen)}

\* absl::string_view(const std::string&): std::string keeps a zero byte at size().
StringView(s) == [bytes |-> s, tail |-> <<>>]

npos == 0

\* absl::string_view::find(char)
find(s, c) ==
  IF \E i \in 1..Len(s) : s[i] = c
  THEN CHOOSE i \in 1..Len(s) : s[i] = c /\ \A j \in 1..(i - 1) : s[j] # c
  ELSE npos

\* absl::string_view::find_first_of(chars)
find_first_of(s, chars) ==
  IF \E i \in 1..Len(s) : s[i] \in chars
  THEN CHOOSE i \in 1..Len(s) : s[i] \in chars /\ \A j \in 1..(i - 1) : s[j] \notin chars
  ELSE npos

\* path.find("//")
find_double_slash(s) ==
  IF \E i \in 1..(Len(s) - 1) : s[i] = "/" /\ s[i + 1] = "/"
  THEN CHOOSE i \in 1..(Len(s) - 1) :
         /\ s[i] = "/" /\ s[i + 1] = "/"
         /\ \A j \in 1..(i - 1) : ~(s[j] = "/" /\ s[j + 1] = "/")
  ELSE npos

\* std::string(const char*): the bytes from data() up to the first zero byte,
\* whatever size() says.
RECURSIVE UpToNul(_)
UpToNul(s) ==
  IF s = <<>> \/ Head(s) = NUL THEN <<>> ELSE <<Head(s)>> \o UpToNul(Tail(s))

c_str(view) == UpToNul(view.bytes \o view.tail)

\* original_path.substr(0, query_start): the bytes before the first '?'.
PathOf(s, query_start) ==
  IF query_start = npos THEN s ELSE SubSeq(s, 1, query_start - 1)

\* A query suffix that starts after the '?' instead of at it.
QueryOfDropsMark(s, query_start) ==
  IF query_start = npos THEN <<>> ELSE SubSeq(s, query_start + 1, Len(s))

\* absl::ClippedSubstr(original_path, query_start), and the query_suffix of
\* canonicalPath and rfcNormalize: from the first '?' (inclusive) to the end.
QueryOf(s, query_start) ==
  IF query_start = npos THEN <<>> ELSE SubSeq(s, query_start, Len(s))

\* absl::StrSplit(path, '/', absl::SkipEmpty())
RECURSIVE SplitAcc(_, _, _)
SplitAcc(s, cur, acc) ==
  IF s = <<>> THEN (IF cur = <<>> THEN acc ELSE Append(acc, cur))
  ELSE IF Head(s) = "/"
       THEN SplitAcc(Tail(s), <<>>, IF cur = <<>> THEN acc ELSE Append(acc, cur))
       ELSE SplitAcc(Tail(s), Append(cur, Head(s)), acc)

StrSplitSkipEmpty(path) == SplitAcc(path, <<>>, <<>>)

\* absl::StrJoin(pieces, "/")
RECURSIVE StrJoin(_)
StrJoin(pieces) ==
  IF pieces = <<>> THEN <<>>
  ELSE IF Len(pieces) = 1 THEN pieces[1]
  ELSE pieces[1] \o <<"/">> \o StrJoin(Tail(pieces))

StartsWithSlash(path) == Len(path) > 0 /\ path[1] = "/"
EndsWithSlash(path) == Len(path) > 0 /\ path[Len(path)] = "/"

\* The merge path shared by PathUtil::mergeSlashes and
\* PathTransformer::mergeSlashes: StrCat(prefix, join(split), suffix, query).
MergedPath(path, query) ==
  (IF StartsWithSlash(path) THEN <<"/">> ELSE <<>>)
    \o StrJoin(StrSplitSkipEmpty(path))
    \o (IF EndsWithSlash(path) THEN <<"/">> ELSE <<>>)
    \o query

\* ------------------------------------------------------ canonicalizer
\* url::CanonicalizePath and LegacyPathCanonicalizer::canonicalizePath are not
\* part of path_utility.cc.  They are modelled from the specification's
\* section 4.2: the path is split at every '/', a "." segment is dropped, a
\* ".." segment pops the last output segment (and is dropped at the root),
\* a leading '/' is kept, and a disallowed control byte (here the zero
\* byte) or a malformed percent-encoding triplet makes the whole operation
\* fail.
RECURSIVE SplitAll(_, _)
SplitAll(s, cur) ==
  IF s = <<>> THEN <<cur>>
  ELSE IF Head(s) = "/" THEN <<cur>> \o SplitAll(Tail(s), <<>>)
  ELSE SplitAll(Tail(s), Append(cur, Head(s)))

RECURSIVE ResolveDots(_, _)
ResolveDots(segments, out) ==
  IF segments = <<>> THEN out
  ELSE LET seg == Head(segments) IN
       IF seg = <<".">> THEN ResolveDots(Tail(segments), out)
       ELSE IF seg = <<".", ".">>
            THEN ResolveDots(Tail(segments),
                             IF out = <<>> THEN out ELSE SubSeq(out, 1, Len(out) - 1))
            ELSE ResolveDots(Tail(segments), Append(out, seg))

CanonicalForm(path) ==
  LET lead == StartsWithSlash(path)
      inner == IF lead THEN Tail(path) ELSE path
  IN (IF lead THEN <<"/">> ELSE <<>>) \o StrJoin(ResolveDots(SplitAll(inner, <<>>), <<>>))

MalformedTriplet(path, i) ==
  /\ path[i] = "%"
  /\ \/ i + 2 > Len(path)
     \/ path[i + 1] \notin HexDigits
     \/ path[i + 2] \notin HexDigits

CanonicalizerRejects(path) ==
  \E i \in 1..Len(path) : path[i] = NUL \/ MalformedTriplet(path, i)

\* A canonicalizePath that consults the feature flag a second time.
canonicalizePathReadsTwice(original_path, flagValue) ==
  [has_value |-> ~CanonicalizerRejects(original_path),
   value     |-> IF CanonicalizerRejects(original_path) THEN <<>>
                 ELSE CanonicalForm(original_path),
   used      |-> IF flagValue THEN "rfc3986" ELSE "legacy",
   reads     |-> 2]

\* canonicalizePath: one read of the runtime feature flag selects the
\* canonicalizer; both take the bytes of the view and nothing beyond them.
canonicalizePath(original_path, flagValue) ==
  [has_value |-> ~CanonicalizerRejects(original_path),
   value     |-> IF CanonicalizerRejects(original_path) THEN <<>>
                 ELSE CanonicalForm(original_path),
   used      |-> IF flagValue THEN "rfc3986" ELSE "legacy",
   reads     |-> 1]

\* ------------------------------------------------- PathTransformer steps
\* PathTransformer::mergeSlashes
PathTransformer_mergeSlashes(original_path) ==
  LET query_start == find(original_path.bytes, "?")
      path == PathOf(original_path.bytes, query_start)
      query == QueryOf(original_path.bytes, query_start)
  IN IF find_double_slash(path) = npos
     THEN c_str(original_path)
     ELSE MergedPath(path, query)

\* The argument PathTransformer::rfcNormalize hands to canonicalizePath.
PathToCanonicalize(original_path) ==
  PathOf(original_path, find(original_path, "?"))

\* What PathTransformer::rfcNormalize returns once the optional holds a value.
rfcNormalizeValue(original_path, normalized_path) ==
  normalized_path \o QueryOf(original_path, find(original_path, "?"))

\* remove_suffix(length - offset) that only looks for '?'.
removeQueryOnly(path) ==
  LET offset == find(path, "?")
  IN IF offset # npos THEN SubSeq(path, 1, offset - 1) ELSE path

\* PathUtil::removeQueryAndFragment
removeQueryAndFragment(path) ==
  LET offset == find_first_of(path, {"?", "#"})
  IN IF offset # npos THEN SubSeq(path, 1, offset - 1) ELSE path

\* The transformation list the PathTransformer constructor builds.
RECURSIVE BuildTransformations(_)
BuildTransformations(operations) ==
  IF operations = <<>> THEN <<>>
  ELSE LET operation == Head(operations)
           rest == BuildTransformations(Tail(operations))
       IN IF operation = "normalize_path_rfc_3986" THEN <<"rfcNormalize">> \o rest
          ELSE IF operation = "merge_slashes" THEN <<"mergeSlashes">> \o rest
          ELSE rest

\* An operation of the configuration: one of the two variants, or neither set.
OperationKinds == {"normalize_path_rfc_3986", "merge_slashes", "operation_not_set"}
OperationLists == StringsOver(OperationKinds, MaxOps)

\* ------------------------------------------------------------- state
VARIABLES
  flag,             \* envoy.reloadable_features.remove_forked_chromium_url
  transformations,  \* PathTransformer::transformations
  operations,       \* the constructor's path_transformation.operations()
  pc,               \* "idle", "constructed", "transform" or "done"
  op,               \* the operation called last
  arg,              \* the view the operation was called with
  headerPath,       \* the request header map's :path value
  setPathCalls,     \* calls of headers.setPath made by the operation
  transformed,      \* transform's local std::string
  idx,              \* transform's position in transformations
  flagReads,        \* reads of the feature flag made by the operation
  canonUsed,        \* the canonicalizer each canonicalizePath call selected
  canonOpt,         \* "none", or "value" / "nullopt": what canonicalizePath returned last
  unwrappedEmpty,   \* value() was called on an optional that holds nothing
  ret               \* what the operation returned

vars == <<flag, transformations, operations, pc, op, arg, headerPath, setPathCalls,
          transformed, idx, flagReads, canonUsed, canonOpt, unwrappedEmpty, ret>>

NoView == [bytes |-> <<>>, tail |-> <<>>]
NoRet == [kind |-> "none", str |-> <<>>, ok |-> FALSE]
StringRet(s) == [kind |-> "string", str |-> s, ok |-> TRUE]
BoolRet(b) == [kind |-> "bool", str |-> <<>>, ok |-> b]
VoidRet == [kind |-> "void", str |-> <<>>, ok |-> TRUE]
\* absl::optional::value() on an empty optional throws absl::bad_optional_access,
\* or aborts the process in a build without exceptions.
BadAccessOutcomes == {"bad_optional_access", "abort"}
ThrownRet(k) == [kind |-> k, str |-> <<>>, ok |-> FALSE]

Init ==
  /\ flag \in BOOLEAN
  /\ transformations = <<>>
  /\ operations = <<>>
  /\ pc = "idle"
  /\ op = "none"
  /\ arg = NoView
  /\ headerPath = <<>>
  /\ setPathCalls = 0
  /\ transformed = <<>>
  /\ idx = 0
  /\ flagReads = 0
  /\ canonUsed = <<>>
  /\ canonOpt = "none"
  /\ unwrappedEmpty = FALSE
  /\ ret = NoRet

\* A runtime reload flips the feature flag; it can happen at any time,
\* also between two steps of one transform call.
FlipFlag ==
  /\ flag' = ~flag
  /\ UNCHANGED <<transformations, operations, pc, op, arg, headerPath, setPathCalls,
                 transformed, idx, flagReads, canonUsed, canonOpt, unwrappedEmpty, ret>>

\* PathTransformer::PathTransformer(path_transformation)
Construct(ops) ==
  /\ pc = "idle"
  /\ operations' = ops
  /\ transformations' = BuildTransformations(ops)
  /\ pc' = "constructed"
  /\ op' = "PathTransformer"
  /\ UNCHANGED <<flag, arg, headerPath, setPathCalls, transformed, idx, flagReads,
                 canonUsed, canonOpt, unwrappedEmpty, ret>>

\* PathUtil::canonicalPath(headers), headers holding the path view.bytes
canonicalPath(view) ==
  /\ pc = "idle"
  /\ LET original_path == view.bytes
         query_pos == find(original_path, "?")
         normalized_path_opt == canonicalizePath(PathOf(original_path, query_pos), flag)
     IN /\ flagReads' = normalized_path_opt.reads
        /\ canonUsed' = <<normalized_path_opt.used>>
        /\ IF ~normalized_path_opt.has_value
           THEN /\ canonOpt' = "nullopt"
                /\ headerPath' = original_path
                /\ setPathCalls' = 0
                /\ ret' = BoolRet(FALSE)
           ELSE /\ canonOpt' = "value"
                /\ headerPath' = normalized_path_opt.value \o QueryOf(original_path, query_pos)
                /\ setPathCalls' = 1
                /\ ret' = BoolRet(TRUE)
  /\ pc' = "done"
  /\ op' = "canonicalPath"
  /\ arg' = view
  /\ UNCHANGED <<flag, transformations, operations, transformed, idx, unwrappedEmpty>>

\* PathUtil::mergeSlashes(headers), headers holding the path view.bytes
PathUtil_mergeSlashes(view) ==
  /\ pc = "idle"
  /\ LET original_path == view.bytes
         query_start == find(original_path, "?")
         path == PathOf(original_path, query_start)
         query == QueryOf(original_path, query_start)
     IN IF find_double_slash(path) = npos
        THEN /\ headerPath' = original_path
             /\ setPathCalls' = 0
        ELSE /\ headerPath' = MergedPath(path, query)
             /\ setPathCalls' = 1
  /\ ret' = VoidRet
  /\ pc' = "done"
  /\ op' = "PathUtil::mergeSlashes"
  /\ arg' = view
  /\ UNCHANGED <<flag, transformations, operations, transformed, idx, flagReads,
                 canonUsed, canonOpt, unwrappedEmpty>>

\* PathUtil::removeQueryAndFragment(path)
CallRemoveQueryAndFragment(view) ==
  /\ pc = "idle"
  /\ ret' = StringRet(removeQueryAndFragment(view.bytes))
  /\ pc' = "done"
  /\ op' = "removeQueryAndFragment"
  /\ arg' = view
  /\ UNCHANGED <<flag, transformations, operations, headerPath, setPathCalls,
                 transformed, idx, flagReads, canonUsed, canonOpt, unwrappedEmpty>>

\* PathTransformer::mergeSlashes(original_path), called on its own
CallMergeSlashes(view) ==
  /\ pc = "idle"
  /\ ret' = StringRet(PathTransformer_mergeSlashes(view))
  /\ pc' = "done"
  /\ op' = "mergeSlashes"
  /\ arg' = view
  /\ UNCHANGED <<flag, transformations, operations, headerPath, setPathCalls,
                 transformed, idx, flagReads, canonUsed, canonOpt, unwrappedEmpty>>

\* PathTransformer::mergeSlashes called again on the std::string it returned
CallMergeSlashesAgain ==
  /\ pc = "done"
  /\ op = "mergeSlashes"
  /\ arg' = StringView(ret.str)
  /\ ret' = StringRet(PathTransformer_mergeSlashes(StringView(ret.str)))
  /\ op' = "mergeSlashes again"
  /\ UNCHANGED <<flag, transformations, operations, pc, headerPath, setPathCalls,
                 transformed, idx, flagReads, canonUsed, canonOpt, unwrappedEmpty>>

\* PathTransformer::transform: std::string transformed = original.data();
TransformBegin(view) ==
  /\ pc = "idle"
  /\ transformed' = c_str(view)
  /\ idx' = 1
  /\ pc' = "transform"
  /\ op' = "transform"
  /\ arg' = view
  /\ UNCHANGED <<flag, transformations, operations, headerPath, setPathCalls,
                 flagReads, canonUsed, canonOpt, unwrappedEmpty, ret>>

\* One turn of transform's loop whose transformation is mergeSlashes.
TransformMergeSlashes ==
  /\ pc = "transform"
  /\ idx <= Len(transformations)
  /\ transformations[idx] = "mergeSlashes"
  /\ transformed' = PathTransformer_mergeSlashes(StringView(transformed))
  /\ idx' = idx + 1
  /\ UNCHANGED <<flag, transformations, operations, pc, op, arg, headerPath,
                 setPathCalls, flagReads, canonUsed, canonOpt, unwrappedEmpty, ret>>

\* One turn of transform's loop whose transformation is rfcNormalize, the
\* canonicalizer returning a value.
TransformRfcNormalize ==
  /\ pc = "transform"
  /\ idx <= Len(transformations)
  /\ transformations[idx] = "rfcNormalize"
  /\ LET normalized_path_opt == canonicalizePath(PathToCanonicalize(transformed), flag)
     IN /\ normalized_path_opt.has_value
        /\ flagReads' = flagReads + normalized_path_opt.reads
        /\ canonUsed' = Append(canonUsed, normalized_path_opt.used)
        /\ canonOpt' = "value"
        /\ transformed' = rfcNormalizeValue(transformed, normalized_path_opt.value)
  /\ idx' = idx + 1
  /\ UNCHANGED <<flag, transformations, operations, pc, op, arg, headerPath,
                 setPathCalls, unwrappedEmpty, ret>>

\* The same turn when the canonicalizer returns absl::nullopt: rfcNormalize
\* calls value() on the empty optional, and transform never returns.
TransformRfcNormalizeNullopt ==
  /\ pc = "transform"
  /\ idx <= Len(transformations)
  /\ transformations[idx] = "rfcNormalize"
  /\ LET normalized_path_opt == canonicalizePath(PathToCanonicalize(transformed), flag)
     IN /\ ~normalized_path_opt.has_value
        /\ flagReads' = flagReads + normalized_path_opt.reads
        /\ canonUsed' = Append(canonUsed, normalized_path_opt.used)
  /\ canonOpt' = "nullopt"
  /\ unwrappedEmpty' = TRUE
  /\ \E k \in BadAccessOutcomes : ret' = ThrownRet(k)
  /\ pc' = "done"
  /\ UNCHANGED <<flag, transformations, operations, op, arg, headerPath,
                 setPathCalls, transformed, idx>>

\* transform: return transformed;
TransformReturn ==
  /\ pc = "transform"
  /\ idx > Len(transformations)
  /\ ret' = StringRet(transformed)
  /\ pc' = "done"
  /\ UNCHANGED <<flag, transformations, operations, op, arg, headerPath,
                 setPathCalls, transformed, idx, flagReads, canonUsed, canonOpt,
                 unwrappedEmpty>>

\* The call is over: its arguments and locals are gone; the pipeline and the
\* flag stay.
Return ==
  /\ pc \in {"constructed", "done"}
  /\ pc' = "idle"
  /\ operations' = <<>>
  /\ op' = "none"
  /\ arg' = NoView
  /\ headerPath' = <<>>
  /\ setPathCalls' = 0
  /\ transformed' = <<>>
  /\ idx' = 0
  /\ flagReads' = 0
  /\ canonUsed' = <<>>
  /\ canonOpt' = "none"
  /\ unwrappedEmpty' = FALSE
  /\ ret' = NoRet
  /\ UNCHANGED <<flag, transformations>>

\* A request of the configured filter: the pipeline is built at a configuration
\* load and then transforms requests; canonicalPath or a single pipeline step
\* is applied to a request.
Next ==
  \/ FlipFlag
  \/ \E ops \in OperationLists : Construct(ops)
  \/ \E view \in RequestViews : canonicalPath(view)
  \/ \E view \in RequestViews : CallMergeSlashes(view)
  \/ \E view \in RequestViews : TransformBegin(view)
  \/ TransformMergeSlashes
  \/ TransformRfcNormalize
  \/ TransformRfcNormalizeNullopt
  \/ TransformReturn
  \/ Return

Spec == Init /\ [][Next]_vars

\* The static functions called on their own, on every input up to MaxLen.
UtilNext ==
  \/ FlipFlag
  \/ \E view \in Views : canonicalPath(view)
  \/ \E view \in Views : PathUtil_mergeSlashes(view)
  \/ \E view \in FragmentViews : CallRemoveQueryAndFragment(view)
  \/ \E view \in Views : CallMergeSlashes(view)
  \/ CallMergeSlashesAgain
  \/ Return

UtilSpec == Init /\ [][UtilNext]_vars

\* ------------------------------------------------- terms of the claims
\* The path segment: the longest prefix holding no '?'.
PathSegment(s) ==
  LET n == CHOOSE k \in 0..Len(s) :
             /\ \A i \in 1..k : s[i] # "?"
             /\ (k < Len(s) => s[k + 1] = "?")
  IN SubSeq(s, 1, n)

\* The query suffix: from the first '?' (inclusive) to the end.
QuerySuffix(s) == SubSeq(s, Len(PathSegment(s)) + 1, Len(s))

HasDoubleSlash(s) == \E i \in 1..(Len(s) - 1) : s[i] = "/" /\ s[i + 1] = "/"

\* Every maximal run of '/' replaced by one '/'.
RECURSIVE CollapseRuns(_)
CollapseRuns(s) ==
  IF Len(s) < 2 THEN s
  ELSE IF s[1] = "/" /\ s[2] = "/" THEN CollapseRuns(Tail(s))
  ELSE <<s[1]>> \o CollapseRuns(Tail(s))

HasNul(s) == \E i \in 1..Len(s) : s[i] = NUL

\* The steps one per operation that is one of the two variants, in order.
StepOf(operation) ==
  IF operation = "normalize_path_rfc_3986" THEN "rfcNormalize" ELSE "mergeSlashes"

StepsOf(ops) ==
  LET kept == SelectSeq(ops, LAMBDA o : o \in {"normalize_path_rfc_3986", "merge_slashes"})
  IN [i \in 1..Len(kept) |-> StepOf(kept[i])]

\* The left-to-right composition of the steps, each given the whole
\* path-with-query string the previous one returned.
RECURSIVE Compose(_, _)
Compose(steps, s) ==
  IF steps = <<>> THEN StringRet(s)
  ELSE IF Head(steps) = "mergeSlashes"
       THEN Compose(Tail(steps), PathTransformer_mergeSlashes(StringView(s)))
       ELSE LET opt == canonicalizePath(PathToCanonicalize(s), TRUE)
            IN IF opt.has_value
               THEN Compose(Tail(steps), rfcNormalizeValue(s, opt.value))
               ELSE ThrownRet("nullopt")

CountRfcNormalize(steps) ==
  Cardinality({i \in 1..Len(steps) : steps[i] = "rfcNormalize"})

TransformDone == pc = "done" /\ op = "transform"

\* --------------------------------------------------------------- claims

\* C1: when the canonicalizer returns no value for the path segment, the
\* pipeline's rfcNormalize step ends in a reported pipeline failure: no path
\* string is returned, and value() is never called on the empty optional.
C1_CanonicalizationFailureReported ==
  (op = "transform" /\ canonOpt = "nullopt") =>
    /\ pc = "done"
    /\ ret.kind = "CanonicalizationFailure"
    /\ ~unwrappedEmpty

\* C2: canonicalPath returns false exactly when the canonicalizer fails on the
\* bytes before the first '?', and then setPath is not called and the header
\* path is unchanged; otherwise it returns true and the header path is the
\* canonicalizer's result followed by the original bytes from the first '?'.
C2_CanonicalPathContract ==
  (pc = "done" /\ op = "canonicalPath") =>
    LET p == arg.bytes
        seg == PathSegment(p)
    IN /\ ret.kind = "bool"
       /\ (ret.ok = FALSE) <=> CanonicalizerRejects(seg)
       /\ CanonicalizerRejects(seg) => (setPathCalls = 0 /\ headerPath = p)
       /\ ~CanonicalizerRejects(seg) =>
            (ret.ok /\ headerPath = CanonicalForm(seg) \o QuerySuffix(p))

\* canonicalPath succeeded on a path with a query and rewrote the path.
C2_Witness ==
  /\ pc = "done" /\ op = "canonicalPath"
  /\ ret.ok
  /\ Len(QuerySuffix(arg.bytes)) > 1
  /\ headerPath # arg.bytes

\* C3: for every pipeline and every input whose canonicalization steps all
\* succeed, the input from its first '?' on equals transform(input) from its
\* first '?' on.
C3_QuerySuffixPreserved ==
  (TransformDone /\ ret.kind = "string") =>
    QuerySuffix(ret.str) = QuerySuffix(arg.bytes)

\* C4: the path segment of mergeSlashes(input) is the input's path segment
\* with every run of '/' replaced by one '/', and so holds no "//".  Stated
\* for inputs without a zero byte in a buffer terminated at size().
C4_MergeSlashesCollapsesRuns ==
  (pc = "done" /\ op = "mergeSlashes" /\ ~HasNul(arg.bytes) /\ arg.tail = <<>>) =>
    /\ PathSegment(ret.str) = CollapseRuns(PathSegment(arg.bytes))
    /\ ~HasDoubleSlash(PathSegment(ret.str))

\* C5: mergeSlashes is idempotent: applied to its own result, it returns it.
C5_MergeSlashesIdempotent ==
  (pc = "done" /\ op = "mergeSlashes again") => ret.str = arg.bytes

\* C6: the pipeline holds one step per operation that is one of the two
\* variants, in the configured order, and transform(p) is the left-to-right
\* composition of those steps applied to p.
C6_PipelineIsComposition ==
  /\ pc = "constructed" => transformations = StepsOf(operations)
  /\ (TransformDone /\ ret.kind = "string") =>
       ret = Compose(transformations, arg.bytes)

\* C7: the result of transform and of mergeSlashes depends only on the bytes
\* inside the view: it is the result for the same bytes in a buffer
\* terminated at size(), and an input passed through is passed through whole.
C7_OnlyTheBytesOfTheView ==
  /\ (pc = "done" /\ op = "mergeSlashes") =>
       /\ ret.str = PathTransformer_mergeSlashes(StringView(arg.bytes))
       /\ ~HasDoubleSlash(PathSegment(arg.bytes)) => ret.str = arg.bytes
  /\ (TransformDone /\ ret.kind = "string") =>
       /\ ret = Compose(transformations, c_str(StringView(arg.bytes)))
       /\ transformations = <<>> => ret.str = arg.bytes

\* C8 as claimed: one canonicalPath call or one transform call reads the
\* feature flag at most once, so no two canonicalization steps of a request
\* use different canonicalizers.
C8_FlagReadOncePerRequest ==
  /\ flagReads <= 1
  /\ \A i, j \in 1..Len(canonUsed) : canonUsed[i] = canonUsed[j]

\* C8 as amended: every canonicalizePath call reads the flag exactly once and
\* uses the canonicalizer that read selects: canonicalPath reads it once, and
\* transform once per rfcNormalize step it has run.
C8_FlagReadOncePerCanonicalization ==
  /\ flagReads = Len(canonUsed)
  /\ (pc = "done" /\ op = "canonicalPath") => flagReads = 1
  /\ op = "transform" =>
       flagReads = CountRfcNormalize(SubSeq(transformations, 1, idx - 1))
                     + (IF canonOpt = "nullopt" THEN 1 ELSE 0)
  /\ op \notin {"transform", "canonicalPath"} => flagReads = 0

\* A transform ran two rfcNormalize steps with the flag flipped in between.
C8_Witness ==
  /\ TransformDone
  /\ ret.kind = "string"
  /\ flagReads = 2
  /\ canonUsed[1] # canonUsed[2]

\* C9: removeQueryAndFragment(p) is the prefix of p that ends just before the
\* first '?' or '#', and p itself when p holds neither.
C9_RemoveQueryAndFragment ==
  (pc = "done" /\ op = "removeQueryAndFragment") =>
    LET p == arg.bytes
        r == ret.str
    IN /\ Len(r) <= Len(p)
       /\ r = SubSeq(p, 1, Len(r))
       /\ \A i \in 1..Len(r) : r[i] \notin {"?", "#"}
       /\ Len(r) < Len(p) => p[Len(r) + 1] \in {"?", "#"}

\* removeQueryAndFragment cut a path at a '#' that comes before a '?'.
C9_Witness ==
  /\ pc = "done" /\ op = "removeQueryAndFragment"
  /\ Len(ret.str) > 0
  /\ Len(ret.str) < Len(arg.bytes)
  /\ arg.bytes[Len(ret.str) + 1] = "#"
  /\ \E i \in 1..Len(arg.bytes) : arg.bytes[i] = "?"

\* C10: the header path after PathUtil::mergeSlashes equals
\* PathTransformer::mergeSlashes of the header's path view, and setPath is
\* called only when the path segment holds "//".
C10_HeaderAndStepAgree ==
  (pc = "done" /\ op = "PathUtil::mergeSlashes") =>
    /\ headerPath = PathTransformer_mergeSlashes(arg)
    /\ setPathCalls > 0 => HasDoubleSlash(PathSegment(arg.bytes))

=============================================================================
